---- MODULE Spec2Model ----
(***************************************************************************)
(* A model of the log-structured key/value engine of src/src/lib.rs:       *)
(* KvStore::open, KvsWriter (set, remove, clear, compaction, build_index)  *)
(* and KvsReader::get, over a data directory of byte files.                *)
(***************************************************************************)
EXTENDS Integers, Sequences, FiniteSets, TLC

(***************************************************************************)
(* Bounds of the model.                                                    *)
(***************************************************************************)
\* The number of set, remove and clear calls made in one behaviour.
MaxCalls == 3
\* The number of I/O faults the environment injects in one behaviour.
MaxFaults == 1
\* The number of times the directory is opened again after the first open.
MaxReopens == 1
\* The number of whole records in a log that open replays.
MaxRecords == 3
\* The number of client connections that arrive in one behaviour.
MaxClients == 3
\* The number of connections the accept queue of the listener holds.
MaxBacklog == 2
\* The most pairs or keys one call of ThreadedKvsClient::set or get is given.
MaxRequests == 7
\* The most threads a ThreadedKvsClient is created with.
PoolThreads == 3
\* The number of jobs spawned on a SharedQueueThreadPool in one behaviour.
MaxJobs == 3
\* The most requests of a connection whose jobs are followed step by step.
MaxLen == 6
\* The largest batch a KvsClient is given.
MaxBatch == 257
\* The number of network faults the environment injects in one behaviour.
MaxNetFaults == 1

\* lib.rs:125, in model bytes (a Set record is 4 or 5 model bytes long, so
\* the threshold is reached by one or two stale records, as 1 MiB is by many).
COMPACTION_THRESHOLD == 4

Keys == {"a", "b"}
ValueChars == {"x", "y"}
\* String values, as sequences of characters; their encodings differ in length.
Values == {<<"x">>, <<"y", "y">>}
Readers == {"r1"}
\* The threads that call set, remove and clear on clones of one engine.
Threads == {"t1", "t2"}
\* The worker threads of a SharedQueueThreadPool::new(2).
Workers == {"w1", "w2"}
\* The values of a u8 (batch_size as u8, client.rs:109).
U8 == 256

\* Option::None for a generation (all_log_files' preserve_gen, a failed parse).
NoGen == -1
\* Option::None for a value (get's Ok(None)); every value is non-empty.
NoValue == <<>>
\* Option::None for an offset range.
NoRange == <<>>

(***************************************************************************)
(* Command and its CBOR encoding (serde_cbor::to_writer, Deserializer).    *)
(* A record is self-delimiting: a tag byte, the key, and for Set a length  *)
(* byte followed by that many value bytes.                                 *)
(***************************************************************************)
SetCmd(k, v) == [type |-> "Set", key |-> k, value |-> v]
RemoveCmd(k) == [type |-> "Remove", key |-> k, value |-> NoValue]

LenBytes == <<"L1", "L2">>

EncodeCmd(cmd) ==
    IF cmd.type = "Set"
    THEN <<"S", cmd.key, LenBytes[Len(cmd.value)]>> \o cmd.value
    ELSE <<"R", cmd.key>>

\* Deserialize one command from bytes starting at byte offset pos (0-based).
\* ok = FALSE when the bytes at pos are no complete, well-formed record.
DecodeAt(bytes, pos) ==
    LET n == Len(bytes)
        bad == [ok |-> FALSE, cmd |-> RemoveCmd("a"), end |-> pos]
    IN  IF pos + 2 > n \/ bytes[pos + 2] \notin Keys THEN bad
        ELSE IF bytes[pos + 1] = "R"
        THEN [ok |-> TRUE, cmd |-> RemoveCmd(bytes[pos + 2]), end |-> pos + 2]
        ELSE IF bytes[pos + 1] # "S" \/ pos + 3 > n THEN bad
        ELSE IF \A l \in 1..Len(LenBytes) : LenBytes[l] # bytes[pos + 3]
        THEN bad
        ELSE LET l == CHOOSE l \in 1..Len(LenBytes) :
                          LenBytes[l] = bytes[pos + 3]
             IN  IF pos + 3 + l > n THEN bad
                 ELSE IF \E i \in 1..l : bytes[pos + 3 + i] \notin ValueChars
                 THEN bad
                 ELSE [ok |-> TRUE,
                       cmd |-> SetCmd(bytes[pos + 2],
                                      SubSeq(bytes, pos + 4, pos + 3 + l)),
                       end |-> pos + 3 + l]

\* Range::new and Range::len.
Range(start, end) == <<start, end>>
RangeLen(r) == r[2] - r[1]

(***************************************************************************)
(* Paths of the data directory.  A file name is its stem (the text before  *)
(* the final "."), as a sequence of tokens, and its extension.             *)
(***************************************************************************)
log_path(g) == [stem |-> <<"kvs_", ToString(g)>>, ext |-> "cbor"]
compacted_log_path == [stem |-> <<"kvs_", "compact">>, ext |-> "cbor"]
\* A file of the directory that the engine did not write.
StrayPath == [stem |-> <<"cbor">>, ext |-> "bak"]

\* Path::file_stem and Path::file_name.
file_stem(p) == p.stem
file_name(p) == p.stem \o <<".", p.ext>>

\* An all_log_files that tells log files by their extension and stem.
all_log_files_by_extension(d, preserve_gen) ==
    {p \in DOMAIN d :
        /\ p.ext = "cbor"
        /\ \/ preserve_gen = NoGen
           \/ file_stem(p) # <<"kvs_", ToString(preserve_gen)>>}

\* The paths all_log_files returns: the files whose file_stem() is "cbor" and
\* whose file_name() is not "kvs_<preserve_gen>".
all_log_files(d, preserve_gen) ==
    {p \in DOMAIN d :
        /\ file_stem(p) = <<"cbor">>
        /\ \/ preserve_gen = NoGen
           \/ file_name(p) # <<"kvs_", ToString(preserve_gen)>>}

\* name.rsplit("_").next(): the text after the last "_" of the name.
LastSegment(name) ==
    LET cuts == {i \in 1..Len(name) : name[i] = "kvs_"}
        last == IF cuts = {} THEN 0
                ELSE CHOOSE i \in cuts : \A j \in cuts : j <= i
    IN  SubSeq(name, last + 1, Len(name))

\* str::parse::<u64>().ok(): a number only if the text is all digits.
ParseU64(text) ==
    IF Len(text) = 1 /\ \E g \in 0..MaxCalls : ToString(g) = text[1]
    THEN CHOOSE g \in 0..MaxCalls : ToString(g) = text[1]
    ELSE NoGen

\* The generation KvStore::open selects: the largest generation parsed from
\* the paths of all_log_files(dir, None), or 0.
OpenGen(d) ==
    LET gens == {ParseU64(LastSegment(file_name(p))) :
                    p \in {q \in all_log_files(d, NoGen) :
                              file_name(q)[1] = "kvs_"}} \ {NoGen}
    IN  IF gens = {} THEN 0
        ELSE CHOOSE g \in gens : \A h \in gens : h <= g

(***************************************************************************)
(* The index: a map from the keys present to their offset range.           *)
(***************************************************************************)
EmptyIndex == [k \in {} |-> NoRange]
IndexGet(idx, k) == IF k \in DOMAIN idx THEN idx[k] ELSE NoRange
\* An update that keeps the entry a key already has.
IndexUpdateKeepsOld(idx, k, r) ==
    [j \in DOMAIN idx \cup {k} |-> IF j \in DOMAIN idx THEN idx[j] ELSE r]

\* evmap update and refresh: the key has exactly the one new entry.
IndexUpdate(idx, k, r) ==
    [j \in DOMAIN idx \cup {k} |-> IF j = k THEN r ELSE idx[j]]

\* An empty that drops the entry of every key.
IndexEmptyAll(idx, k) == [q \in {} |-> NoRange]

\* evmap's empty(k) followed by refresh: the key has no entry.
IndexEmpty(idx, k) == [j \in DOMAIN idx \ {k} |-> idx[j]]

\* A build_index that stops at a partial record as it does at the end of
\* the file.
AtEofOrPartial(bytes, start) ==
    start >= Len(bytes) \/ ~DecodeAt(bytes, start).ok

\* build_index, line 279: fill_buf returns nothing, the read handle is at the
\* end of the file.
AtEof(bytes, start) == start >= Len(bytes)

\* A build_index that skips a Remove of a key it has no entry for.
ReplayOneSkipsRemove(bytes, start, idx, stale) ==
    LET d == DecodeAt(bytes, start)
        old == IndexGet(idx, d.cmd.key)
    IN  IF ~d.ok
        THEN [err |-> "Decode", index |-> idx, stale |-> stale, end |-> start]
        ELSE IF d.cmd.type = "Set"
        THEN [err |-> "Ok",
              index |-> IndexUpdate(idx, d.cmd.key, Range(start, d.end)),
              stale |-> IF old # NoRange THEN stale + RangeLen(old)
                        ELSE stale,
              end |-> d.end]
        ELSE [err |-> "Ok", index |-> IndexEmpty(idx, d.cmd.key),
              stale |-> IF old # NoRange THEN stale + RangeLen(old)
                        ELSE stale,
              end |-> d.end]

\* One turn of the loop of build_index, lines 283-309, on the record at offset
\* start: the error it returns (Decode: the error of the deserializer), or the
\* index and stale_bytes it reaches and the offset of the next record.
ReplayOne(bytes, start, idx, stale) ==
    LET d == DecodeAt(bytes, start)
        old == IndexGet(idx, d.cmd.key)
    IN  IF ~d.ok
        THEN [err |-> "Decode", index |-> idx, stale |-> stale, end |-> start]
        ELSE IF d.cmd.type = "Set"
        THEN [err |-> "Ok",
              index |-> IndexUpdate(idx, d.cmd.key, Range(start, d.end)),
              stale |-> IF old # NoRange THEN stale + RangeLen(old)
                        ELSE stale,
              end |-> d.end]
        ELSE IF old = NoRange
        THEN [err |-> "CorruptData", index |-> idx, stale |-> stale,
              end |-> start]
        ELSE [err |-> "Ok", index |-> IndexEmpty(idx, d.cmd.key),
              stale |-> stale + RangeLen(old), end |-> d.end]

\* The loop of build_index from offset start: the index and stale_bytes it
\* reaches, or the error it returns.
RECURSIVE Replay(_, _, _, _)
Replay(bytes, start, idx, stale) ==
    IF AtEof(bytes, start)
    THEN [err |-> "Ok", index |-> idx, stale |-> stale]
    ELSE LET s == ReplayOne(bytes, start, idx, stale)
         IN  IF s.err # "Ok"
             THEN [err |-> s.err, index |-> idx, stale |-> stale]
             ELSE Replay(bytes, s.end, s.index, s.stale)

build_index(bytes) == Replay(bytes, 0, EmptyIndex, 0)

(***************************************************************************)
(* The state.                                                              *)
(***************************************************************************)
VARIABLES
    dir,          \* the data directory: path -> the bytes of the file
    index,        \* the published evmap entries: key -> (start, end)
    gen,          \* the published evmap meta: the generation
    stale_bytes,  \* KvsWriter::stale_bytes
    writer,       \* KvsWriter::writer: the path its append handle is open on
    wbuf,         \* KvsWriter::writer: the bytes its BufWriter still buffers
    reader,       \* KvsWriter::reader: the path its read handle is open on
    wpc,          \* where the thread holding the writer lock stands
    wop,          \* the call in progress: its arguments, the offsets of its
                  \* record, and the generation published and what get
                  \* returned for every key when it began
    new_offsets,  \* compaction's new_offsets: key -> range in the new file
    last,         \* the last operation that returned, and its result
    rd,           \* the KvsReader handles: cached file, generation, get state
                  \* (had: the generation cached when the get began)
    kv,           \* the mapping the completed mutations of this engine describe
    faults,       \* the I/O faults the environment may still inject
    reopens,      \* the times the directory may still be opened again
    calls,        \* the set, remove and clear calls that may still be made
    guards,       \* the threads holding a MutexGuard of KvStore::writer
    listener,     \* KvsServer::run's TcpListener: unbound, listening, closed
    incoming,     \* the connections waiting in the listener's accept queue
    channel,      \* the messages in KvsServer's bounded(1) channel
    run,          \* KvsServer::run: its position, accepted stream and result
    shutdown,     \* KvsServer::shutdown: its position, its result, and whether
                  \* run was in its accept loop when it was called
    spawned,      \* the connections run has handed to the thread pool
    clients,      \* the client connections that may still arrive
    net_faults,   \* the network faults the environment may still inject
    threads,      \* ThreadedKvsClient::threads
    tcall,        \* ThreadedKvsClient::set or get: its position, the number
                  \* of requests it was given, and its result
    distribution, \* the batch sizes divide_work returned
    jobs,         \* the batch jobs spawned on the pool: position and outcome
    result,       \* the Arc<Mutex<Result<()>>> the jobs report to
    wg,           \* the live clones of the call's WaitGroup
    sender,       \* SharedQueueThreadPool::sender: alive or dropped
    queue,        \* the jobs sent on the channel and not yet received (after:
                  \* how many jobs had ended when the job was spawned)
    workers,      \* the worker threads: position and the job being run
    receiver,     \* the Mutex around the Receiver: its holder, and poisoning
    received,     \* the jobs in the order recv returned them
    finished,     \* the jobs in the order their run ended (or panicked)
    sent,         \* the number of jobs spawn has sent
    wire,         \* what a KvsClient wrote to its connection: the length
                  \* byte and the number of requests after it
    conn,         \* the server's job for the connection: position and len
    unread,       \* the requests the server has not yet read from the stream
    reqs,         \* the per-request jobs: position and response
    conn_reader,  \* the Mutex around the connection's BufReader
    conn_writer,  \* the Mutex around the connection's BufWriter
    handled,      \* the number of handle_request calls made
    responses     \* the messages written to the connection's BufWriter

\* The state of the engine and the state of the server in front of it.
engine_vars == <<dir, index, gen, stale_bytes, writer, wbuf, reader, wpc, wop,
                 new_offsets, last, rd, kv, faults, reopens, calls, guards>>
server_vars == <<listener, incoming, channel, run, shutdown, spawned, clients,
                 net_faults>>
client_vars == <<threads, tcall, distribution, jobs, result, wg>>
pool_vars == <<sender, queue, workers, receiver, received, finished, sent>>
conn_vars == <<wire, conn, unread, reqs, conn_reader, conn_writer, handled,
               responses>>
\* The client, the thread pool and the connection in front of the server.
front_vars == <<client_vars, pool_vars, conn_vars>>
vars == <<engine_vars, server_vars, front_vars>>

\* A server that has been constructed and whose run has not been called.
NoServer ==
    /\ listener = "unbound"
    /\ incoming = <<>>
    /\ channel = 0
    /\ run = [pc |-> "new", stream |-> "none", result |-> "Pending"]
    /\ shutdown = [pc |-> "new", result |-> "Pending", accepting |-> FALSE]
    /\ spawned = 0
    /\ clients = 0
    /\ net_faults = 0

\* KvsServer::new and the call of run: bounded(1) is empty, run is about to
\* bind, shutdown has not been called.
ServerInit ==
    /\ listener = "unbound"
    /\ incoming = <<>>
    /\ channel = 0
    /\ run = [pc |-> "bind", stream |-> "none", result |-> "Pending"]
    /\ shutdown = [pc |-> "new", result |-> "Pending", accepting |-> FALSE]
    /\ spawned = 0
    /\ clients = MaxClients
    /\ net_faults = MaxNetFaults

\* What the shared result holds: Ok(()), or the error batch job b stored.
OkResult == [tag |-> "Ok", batch |-> 0, kind |-> "Ok"]
ErrResult(b, kind) == [tag |-> "Err", batch |-> b, kind |-> kind]

\* A ThreadedKvsClient on which neither set nor get has been called.
NewClient ==
    /\ tcall = [pc |-> "new", op |-> "set", num_requests |-> 0,
                result |-> "Pending"]
    /\ distribution = <<>>
    /\ jobs = <<>>
    /\ result = OkResult
    /\ wg = 0

\* The job of a worker that runs none.
NoJob == [id |-> 0, panics |-> FALSE, after |-> 0]

\* A Mutex nobody holds and that is not poisoned.
FreeMutex == [holder |-> "none", poisoned |-> FALSE]

\* SharedQueueThreadPool::new: the channel is empty, every worker is at the
\* top of its loop.
NewPool ==
    /\ sender = "alive"
    /\ queue = <<>>
    /\ workers = [w \in Workers |-> [pc |-> "loop", job |-> NoJob]]
    /\ receiver = FreeMutex
    /\ received = <<>>
    /\ finished = <<>>
    /\ sent = 0

\* A connection the server has accepted and nothing was written to yet.
NewConn ==
    /\ wire = [sent |-> FALSE, len |-> 0, requests |-> 0]
    /\ conn = [pc |-> "new", len |-> 0]
    /\ unread = 0
    /\ reqs = <<>>
    /\ conn_reader = FreeMutex
    /\ conn_writer = FreeMutex
    /\ handled = 0
    /\ responses = <<>>

\* The client, pool and connection of the specifications in which they do
\* not act.
NoClient ==
    /\ threads = PoolThreads
    /\ NewClient
    /\ NewPool
    /\ NewConn

EmptyDir == [p \in {} |-> <<>>]
DirPut(d, p, bytes) ==
    [q \in DOMAIN d \cup {p} |-> IF q = p THEN bytes ELSE d[q]]
DirRemove(d, ps) == [q \in DOMAIN d \ ps |-> d[q]]

\* The first n bytes of a sequence, and the rest.
Take(s, n) == SubSeq(s, 1, n)
Drop(s, n) == SubSeq(s, n + 1, Len(s))

(***************************************************************************)
(* KvsReader.                                                              *)
(***************************************************************************)
NoFile == [kind |-> "none", path |-> StrayPath, bytes |-> <<>>]
OpenFile(p) == [kind |-> "path", path |-> p, bytes |-> <<>>]
\* A handle on a file that was unlinked or replaced while open: the handle
\* keeps the file's bytes; p is the path it was opened on.
Orphan(p, bytes) == [kind |-> "orphan", path |-> p, bytes |-> bytes]

Result(tag, v) == [tag |-> tag, value |-> v]
NoResult == Result("Pending", NoValue)

\* A reader handle with nothing cached: KvStore::open's RefCell::new((None,
\* gen)) and Clone's RefCell::new((None, 0)).
NewReader(g) ==
    [pc |-> "idle", key |-> "a", offset |-> NoRange, current_gen |-> 0,
     file |-> NoFile, gen |-> g, result |-> NoResult, snap |-> NoValue,
     cleared |-> FALSE, overtaken |-> "no", had |-> NoGen]

\* The bytes a read through handle f returns.
FileBytes(d, f) == IF f.kind = "path" THEN d[f.path] ELSE f.bytes

\* Unlinking or replacing paths ps leaves every handle open on them valid.
Unlinked(rds, d, ps) ==
    [r \in DOMAIN rds |->
        IF rds[r].file.kind = "path" /\ rds[r].file.path \in ps
        THEN [rds[r] EXCEPT !.file = Orphan(rds[r].file.path,
                                            d[rds[r].file.path])]
        ELSE rds[r]]

\* A get that reads the meta of the snapshot before the one it reads the entry
\* from.
LookedGenApart(rec, k, idx, g, model) ==
    [rec EXCEPT !.pc = "looked", !.key = k, !.offset = IndexGet(idx, k),
                !.current_gen = IF g > 0 THEN g - 1 ELSE g,
                !.result = NoResult, !.snap = model[k],
                !.cleared = FALSE, !.overtaken = "no",
                !.had = IF rec.file.kind = "none" THEN NoGen ELSE rec.gen]

\* KvsReader::get, line 468: meta_get_and reads the entry and the meta in one
\* observation.
Looked(rec, k, idx, g, model) ==
    [rec EXCEPT !.pc = "looked", !.key = k, !.offset = IndexGet(idx, k),
                !.current_gen = g, !.result = NoResult, !.snap = model[k],
                !.cleared = FALSE, !.overtaken = "no",
                !.had = IF rec.file.kind = "none" THEN NoGen ELSE rec.gen]

\* The generation whose log file get opens.
GetOpenGen(rec) == rec.current_gen

\* A get that opens a file only when it has none cached.
MustReopenWhenNone(rec) == rec.file.kind = "none"

\* KvsReader::get, line 473: current_gen > *gen || reader.is_none().
MustReopen(rec) == rec.current_gen > rec.gen \/ rec.file.kind = "none"

\* KvsReader::get, lines 470-486: reopen the cached file if the observed
\* generation is newer or nothing is cached, then seek and decode.
Got(rec, d) ==
    LET reopen == MustReopen(rec)
        p == log_path(GetOpenGen(rec))
    IN  IF reopen /\ p \notin DOMAIN d
        THEN [rec EXCEPT !.pc = "done", !.result = Result("IoErr", NoValue)]
        ELSE LET f == IF reopen THEN OpenFile(p) ELSE rec.file
                 g == IF reopen THEN rec.current_gen ELSE rec.gen
                 dec == DecodeAt(FileBytes(d, f), rec.offset[1])
                 res == IF rec.offset = NoRange THEN Result("None", NoValue)
                        ELSE IF ~dec.ok THEN Result("Panic", NoValue)
                        ELSE IF dec.cmd.type # "Set"
                        THEN Result("Panic", NoValue)
                        ELSE Result("Some", dec.cmd.value)
             IN  [rec EXCEPT !.pc = "done", !.file = f, !.gen = g,
                             !.result = res]

\* What get(k) returns to a handle in cache state rec when nothing interleaves.
GetNow(rec, k) == Got(Looked(rec, k, index, gen, kv), dir).result

\* What a new clone's get returns for every key.
Mapping == [k \in Keys |-> GetNow(NewReader(0), k)]

\* No call has asked for anything yet.
NoMapping == [k \in Keys |-> NoResult]

(***************************************************************************)
(* KvStore::open.                                                          *)
(***************************************************************************)
\* The directory after open has created the log file of the generation.
OpenedDir(d) ==
    IF log_path(OpenGen(d)) \in DOMAIN d THEN d
    ELSE DirPut(d, log_path(OpenGen(d)), <<>>)

\* The state open(d) constructs; build_index failing leaves no engine.
Opened(d) ==
    \E g \in {OpenGen(d)} : \E d1 \in {OpenedDir(d)} :
    \E b \in {build_index(d1[log_path(g)])} :
        /\ dir' = d1
        /\ gen' = g
        /\ index' = IF b.err = "Ok" THEN b.index ELSE EmptyIndex
        /\ stale_bytes' = IF b.err = "Ok" THEN b.stale ELSE 0
        /\ writer' = log_path(g)
        /\ reader' = log_path(g)
        /\ wbuf' = <<>>
        /\ wpc' = IF b.err = "Ok" THEN "idle" ELSE "failed"
        /\ wop' = [op |-> "open", key |-> "a", value |-> NoValue,
                   range |-> NoRange, gen |-> g,
                   before |-> NoMapping]
        /\ new_offsets' = EmptyIndex
        /\ last' = [op |-> "open", key |-> "a", value |-> NoValue,
                    res |-> b.err, at |-> "open"]
        /\ rd' = [r \in Readers |-> NewReader(g)]
        /\ kv' = [k \in Keys |->
                    IF b.err = "Ok" /\ k \in DOMAIN b.index
                    THEN DecodeAt(d1[log_path(g)], b.index[k][1]).cmd.value
                    ELSE NoValue]
        /\ reopens' = reopens - 1
        /\ guards' = {}

\* The state after KvStore::open on directory d, which holds no log file.
Constructed(d) ==
    /\ dir = OpenedDir(d)
    /\ gen = OpenGen(d)
    /\ index = build_index(OpenedDir(d)[log_path(OpenGen(d))]).index
    /\ stale_bytes = build_index(OpenedDir(d)[log_path(OpenGen(d))]).stale
    /\ writer = log_path(OpenGen(d))
    /\ reader = log_path(OpenGen(d))
    /\ wbuf = <<>>
    /\ wpc = "idle"
    /\ wop = [op |-> "open", key |-> "a", value |-> NoValue, range |-> NoRange,
              gen |-> OpenGen(d), before |-> NoMapping]
    /\ new_offsets = EmptyIndex
    /\ last = [op |-> "open", key |-> "a", value |-> NoValue, res |-> "Ok",
               at |-> "open"]
    /\ rd = [r \in Readers |-> NewReader(OpenGen(d))]
    /\ kv = [k \in Keys |-> NoValue]
    /\ calls = MaxCalls
    /\ guards = {}

\* The engine opened on an empty directory; the environment may inject faults
\* and the directory may be opened again.
Init ==
    /\ Constructed(EmptyDir)
    /\ faults = MaxFaults
    /\ reopens = MaxReopens
    /\ NoServer
    /\ NoClient

\* The engine is dropped (or the process dies) and the directory is opened
\* again.  Dropping the BufWriter writes what it still buffers; a crash does
\* not.
Reopen ==
    /\ reopens > 0
    /\ \E flushed \in BOOLEAN :
        /\ flushed \/ wbuf # <<>>
        /\ Opened(IF flushed /\ wpc # "failed"
                  THEN DirPut(dir, writer, dir[writer] \o wbuf) ELSE dir)
    /\ UNCHANGED <<faults, calls>>

(***************************************************************************)
(* KvsWriter::set, remove, clear.                                          *)
(***************************************************************************)
\* The call returns res: the statement ends and its MutexGuard is dropped.
Returned(res) ==
    /\ wpc' = "idle"
    /\ \E t \in guards : guards' = guards \ {t}
    /\ last' = [op |-> wop'.op, key |-> wop'.key, value |-> wop'.value,
                res |-> res, at |-> wpc]

\* BufWriter::flush of buf to the append handle: everything is written, or a
\* fault stops it after any shorter prefix and the rest stays buffered.
FlushOk(buf) ==
    /\ dir' = DirPut(dir, writer, dir[writer] \o buf)
    /\ wbuf' = <<>>
    /\ UNCHANGED faults

FlushFails(buf) ==
    /\ faults > 0
    /\ faults' = faults - 1
    /\ \E n \in 0..(Len(buf) - 1) :
        /\ dir' = DirPut(dir, writer, dir[writer] \o Take(buf, n))
        /\ wbuf' = Drop(buf, n)

\* A Mutex that hands out a guard whether or not another one is held.
UnlockedAlways == TRUE

\* Mutex::lock returns only when no thread holds a guard.
Unlocked == guards = {}

\* self.writer.lock().unwrap(), lines 150, 158, 162: thread t, with one more
\* call to make on its clone of the engine, takes the writer lock.
Lock(t) ==
    /\ wpc \notin {"failed", "replay"}
    /\ calls > 0
    /\ Unlocked
    /\ guards' = guards \cup {t}
    /\ wpc' = "locked"
    /\ UNCHANGED <<dir, index, gen, stale_bytes, writer, wbuf, reader, wop,
                   new_offsets, last, rd, kv, faults, reopens, calls>>

\* The thread holding the lock enters set, remove or clear.
Called ==
    /\ wpc = "locked"
    /\ calls' = calls - 1

\* A set or remove that goes on to its index update although the append
\* failed.
AppendFailedIgnored ==
    /\ wpc' = IF wop'.op = "set" THEN "set_publish" ELSE "remove_publish"
    /\ UNCHANGED <<last, guards>>

\* The ? of lines 348-351 and 325-326: a failed seek, encode or flush returns
\* the error to the caller.
AppendFailed == Returned("Err")

\* A set that takes the start of its record for the start of the log.
SetRangeFromZero(start, rec) == Range(0, Len(rec))

\* The range set stores for the record it appended at the end of the log.
SetRange(start, rec) == Range(start, start + Len(rec))

\* set, lines 345-352: seek to the end (which flushes), encode, flush.
SetAppend(k, v) ==
    LET rec == EncodeCmd(SetCmd(k, v))
        start == Len(dir[writer]) + Len(wbuf)
    IN  /\ Called
        /\ wop' = [op |-> "set", key |-> k, value |-> v,
                   range |-> SetRange(start, rec), gen |-> gen,
                   before |-> Mapping]
        /\ \/ /\ FlushOk(wbuf \o rec)
              /\ wpc' = "set_publish"
              /\ UNCHANGED <<last, guards>>
           \/ /\ wbuf # <<>>
              /\ FlushFails(wbuf)
              /\ AppendFailed
           \/ /\ FlushFails(wbuf \o rec)
              /\ Len(wbuf') <= Len(rec)
              /\ AppendFailed
        /\ UNCHANGED <<index, gen, stale_bytes, writer, reader, new_offsets,
                       rd, kv, reopens>>

\* A set or remove that compacts as soon as stale_bytes reaches the threshold.
AfterRefreshAtThreshold ==
    IF stale_bytes' >= COMPACTION_THRESHOLD
    THEN wpc' = "compact_copy" /\ UNCHANGED <<last, guards>>
    ELSE Returned("Ok")

\* What follows the index refresh of set and remove, lines 363-367, 335-338.
AfterRefresh ==
    IF stale_bytes' > COMPACTION_THRESHOLD
    THEN wpc' = "compact_copy" /\ UNCHANGED <<last, guards>>
    ELSE Returned("Ok")

\* A set that counts the end offset of the replaced record, not its length.
StaleAfterSetByEnd(stale, old) ==
    IF old # NoRange THEN stale + old[2] ELSE stale

\* A remove that subtracts the length of the removed record.
StaleAfterRemoveSubtracted(stale, old) == stale - RangeLen(old)

\* set, lines 356-358: the record set replaces, if any, becomes stale.
StaleAfterSet(stale, old) ==
    IF old # NoRange THEN stale + RangeLen(old) ELSE stale

\* remove, line 333: the record of the removed key becomes stale.
StaleAfterRemove(stale, old) == stale + RangeLen(old)

\* set, lines 354-361: count the replaced record as stale, update, refresh.
SetPublish ==
    /\ wpc = "set_publish"
    /\ stale_bytes' = StaleAfterSet(stale_bytes, IndexGet(index, wop.key))
    /\ index' = IndexUpdate(index, wop.key, wop.range)
    /\ kv' = [kv EXCEPT ![wop.key] = wop.value]
    /\ UNCHANGED wop
    /\ AfterRefresh
    /\ UNCHANGED <<dir, gen, writer, wbuf, reader, new_offsets, rd, faults,
                   reopens, calls>>

\* A remove that writes its record before it has looked the key up.
RemoveKeyNotFoundLogged(k) ==
    /\ Called
    /\ IndexGet(index, k) = NoRange
    /\ wop' = [op |-> "remove", key |-> k, value |-> NoValue, range |-> NoRange,
               gen |-> gen, before |-> Mapping]
    /\ dir' = DirPut(dir, writer,
                     dir[writer] \o wbuf \o EncodeCmd(RemoveCmd(k)))
    /\ wbuf' = <<>>
    /\ Returned("KeyNotFound")
    /\ UNCHANGED <<index, gen, stale_bytes, writer, reader, new_offsets, rd,
                   kv, faults, reopens>>

\* remove of a key with no entry, lines 320-322, 339-341.
RemoveKeyNotFound(k) ==
    /\ Called
    /\ IndexGet(index, k) = NoRange
    /\ wop' = [op |-> "remove", key |-> k, value |-> NoValue, range |-> NoRange,
               gen |-> gen, before |-> Mapping]
    /\ Returned("KeyNotFound")
    /\ UNCHANGED <<dir, index, gen, stale_bytes, writer, wbuf, reader,
                   new_offsets, rd, kv, faults, reopens>>

\* remove, lines 320-326: look the key up, encode, flush.
RemoveAppend(k) ==
    LET rec == EncodeCmd(RemoveCmd(k))
    IN  /\ Called
        /\ IndexGet(index, k) # NoRange
        /\ wop' = [op |-> "remove", key |-> k, value |-> NoValue,
                   range |-> IndexGet(index, k), gen |-> gen,
                   before |-> Mapping]
        /\ \/ /\ FlushOk(wbuf \o rec)
              /\ wpc' = "remove_publish"
              /\ UNCHANGED <<last, guards>>
           \/ /\ FlushFails(wbuf \o rec)
              /\ AppendFailed
        /\ UNCHANGED <<index, gen, stale_bytes, writer, reader, new_offsets,
                       rd, kv, reopens>>

\* remove, lines 331-333: empty the key, refresh, count its record as stale.
RemovePublish ==
    /\ wpc = "remove_publish"
    /\ index' = IndexEmpty(index, wop.key)
    /\ stale_bytes' = StaleAfterRemove(stale_bytes, wop.range)
    /\ kv' = [kv EXCEPT ![wop.key] = NoValue]
    /\ UNCHANGED wop
    /\ AfterRefresh
    /\ UNCHANGED <<dir, gen, writer, wbuf, reader, new_offsets, rd, faults,
                   reopens, calls>>

\* all_log_files(dir, Some(g)) followed by remove_file of each path: read_dir
\* may fail (the call returns Err); a remove_file that fails is only logged.
PurgeFiles(g, next) ==
    \/ /\ faults > 0
       /\ faults' = faults - 1
       /\ Returned("Err")
       /\ UNCHANGED <<dir, rd>>
    \/ \E kept \in SUBSET all_log_files(dir, g) :
        /\ kept = {} \/ faults > 0
        /\ faults' = IF kept = {} THEN faults ELSE faults - 1
        /\ dir' = DirRemove(dir, all_log_files(dir, g) \ kept)
        /\ rd' = Unlinked(rd, dir, all_log_files(dir, g) \ kept)
        /\ next

\* clear, lines 372-383.
ClearPurge ==
    /\ Called
    /\ wop' = [op |-> "clear", key |-> "a", value |-> NoValue,
               range |-> NoRange, gen |-> gen, before |-> Mapping]
    /\ PurgeFiles(gen, wpc' = "clear_truncate" /\ UNCHANGED <<last, guards>>)
    /\ UNCHANGED <<index, gen, stale_bytes, writer, wbuf, reader, new_offsets,
                   kv, reopens>>

\* clear, line 385: set_len(0) on the file under the BufWriter.
ClearTruncate ==
    /\ wpc = "clear_truncate"
    /\ UNCHANGED wop
    /\ \/ /\ dir' = DirPut(dir, writer, <<>>)
          /\ rd' = [r \in Readers |->
                      [rd[r] EXCEPT !.cleared = @ \/ rd[r].pc = "looked"]]
          /\ wpc' = "clear_publish"
          /\ UNCHANGED <<last, guards, faults>>
       \/ /\ faults > 0
          /\ faults' = faults - 1
          /\ Returned("Err")
          /\ UNCHANGED <<dir, rd>>
    /\ UNCHANGED <<index, gen, stale_bytes, writer, wbuf, reader, new_offsets,
                   kv, reopens, calls>>

\* clear, lines 388-392: purge, keep the generation, refresh, reset stale_bytes.
ClearPublish ==
    /\ wpc = "clear_publish"
    /\ index' = EmptyIndex
    /\ stale_bytes' = 0
    /\ kv' = [k \in Keys |-> NoValue]
    /\ UNCHANGED wop
    /\ Returned("Ok")
    /\ UNCHANGED <<dir, gen, writer, wbuf, reader, new_offsets, rd, faults,
                   reopens, calls>>

(***************************************************************************)
(* KvsWriter::compaction.                                                  *)
(***************************************************************************)
\* The orders in which map_into may hand over the entries of the index.
Orders(idx) ==
    {o \in [1..Cardinality(DOMAIN idx) -> DOMAIN idx] :
        \A i, j \in DOMAIN o : o[i] = o[j] => i = j}

\* A compaction that copies the whole log for every entry.
CopiedWholeLog(order, i, idx, bytes) ==
    IF i = 0 THEN <<>> ELSE bytes

\* The bytes of the scratch file after the first i entries of order were copied:
\* each entry's range read from the writer's read handle, lines 407-414.
RECURSIVE Copied(_, _, _, _)
Copied(order, i, idx, bytes) ==
    IF i = 0 THEN <<>>
    ELSE Copied(order, i - 1, idx, bytes)
             \o SubSeq(bytes, idx[order[i]][1] + 1, idx[order[i]][2])

\* A compaction that takes every record to start the scratch file.
NewOffsetZero(order, i, idx, bytes) == 0

\* line 413: the offset of the i-th copied record in the scratch file.
NewOffset(order, i, idx, bytes) == Len(Copied(order, i - 1, idx, bytes))

\* A compaction that pushes the offsets the record had in the old file.
NewRangeOfOldFile(order, i, idx, bytes) == idx[order[i]]

\* line 416: the entry pushed to new_offsets for the i-th copied record.
NewRange(order, i, idx, bytes) ==
    Range(NewOffset(order, i, idx, bytes),
          NewOffset(order, i, idx, bytes) + RangeLen(idx[order[i]]))

\* read_exact fails on a range that ends beyond the file.
Readable(r, bytes) == r[2] <= Len(bytes)

CompactionFailed ==
    /\ Returned("Err")
    /\ UNCHANGED <<index, gen, stale_bytes, writer, wbuf, reader, kv>>

\* compaction, lines 396-417 and the flush of line 424: create the scratch
\* file exclusively, copy every live record, flush.
CompactCopy ==
    /\ wpc = "compact_copy"
    /\ UNCHANGED <<wop, rd, reopens, calls>>
    /\ \/ /\ compacted_log_path \in DOMAIN dir
          /\ CompactionFailed
          /\ UNCHANGED <<dir, new_offsets, faults>>
       \/ /\ compacted_log_path \notin DOMAIN dir
          /\ faults > 0
          /\ faults' = faults - 1
          /\ CompactionFailed
          /\ UNCHANGED <<dir, new_offsets>>
       \/ /\ compacted_log_path \notin DOMAIN dir
          /\ \E order \in Orders(index) :
              LET n == Len(order)
                  src == dir[reader]
              IN  \/ /\ \A i \in 1..n : Readable(index[order[i]], src)
                     /\ dir' = DirPut(dir, compacted_log_path,
                                      Copied(order, n, index, src))
                     /\ new_offsets' =
                            [k \in DOMAIN index |->
                                LET i == CHOOSE j \in 1..n : order[j] = k
                                IN  NewRange(order, i, index, src)]
                     /\ wpc' = "compact_rename"
                     /\ UNCHANGED <<index, gen, stale_bytes, writer, wbuf,
                                    reader, kv, last, guards, faults>>
                  \/ \E i \in 0..n :
                     /\ \A j \in 1..i : Readable(index[order[j]], src)
                     /\ \/ /\ faults > 0
                           /\ faults' = faults - 1
                        \/ /\ i < n
                           /\ ~Readable(index[order[i + 1]], src)
                           /\ UNCHANGED faults
                     /\ dir' = DirPut(dir, compacted_log_path,
                                      Copied(order, i, index, src))
                     /\ CompactionFailed
                     /\ UNCHANGED new_offsets

\* A compaction that skips a generation.
NewGenSkipsOne == gen + 2

\* The generation compaction moves to, line 419.
NewGen == gen + 1

\* compaction, line 425: rename the scratch file to the new generation's log.
CompactRename ==
    /\ wpc = "compact_rename"
    /\ UNCHANGED <<wop, new_offsets, reopens, calls>>
    /\ \/ /\ dir' = DirPut(DirRemove(dir, {compacted_log_path}),
                           log_path(NewGen), dir[compacted_log_path])
          /\ rd' = Unlinked(rd, dir, {log_path(NewGen)} \cap DOMAIN dir)
          /\ wpc' = "compact_open"
          /\ UNCHANGED <<index, gen, stale_bytes, writer, wbuf, reader, kv,
                         last, guards, faults>>
       \/ /\ faults > 0
          /\ faults' = faults - 1
          /\ CompactionFailed
          /\ UNCHANGED <<dir, rd>>

\* Whether a handle in the middle of a get has its file open on the generation
\* it observed.
HandleState(rec) ==
    IF rec.file.kind # "none" /\ rec.gen = rec.current_gen
    THEN "opened" ELSE "unopened"

\* A compaction that publishes the new generation without the new offsets.
CompactedIndexNotUpdated(idx, offsets) == idx

\* The index compaction publishes, lines 437-441.
CompactedIndex(idx, offsets) ==
    [k \in DOMAIN idx \cup DOMAIN offsets |->
        IF k \in DOMAIN offsets THEN offsets[k] ELSE idx[k]]

\* A compaction that replaces the append handle before the open of the read
\* handle has succeeded.
OpenHandlesFailedHalfway ==
    /\ faults > 0
    /\ faults' = faults - 1
    /\ Returned("Err")
    /\ writer' = log_path(gen + 1)
    /\ UNCHANGED <<index, gen, stale_bytes, wbuf, reader, kv, dir, rd>>

\* compaction, lines 429-430: an open of the new log fails and compaction
\* returns before it has assigned anything.
OpenHandlesFailed ==
    /\ faults > 0
    /\ faults' = faults - 1
    /\ CompactionFailed
    /\ UNCHANGED <<dir, rd>>

\* compaction, lines 429-441: open the new log for append and for read, then
\* replace the handles, reset stale_bytes, and publish meta and offsets in one
\* refresh.  The replaced BufWriter writes what it buffers when dropped.
CompactPublish ==
    /\ wpc = "compact_open"
    /\ UNCHANGED <<wop, new_offsets, reopens, calls>>
    /\ \/ /\ log_path(NewGen) \in DOMAIN dir
          /\ writer' = log_path(NewGen)
          /\ reader' = log_path(NewGen)
          /\ dir' = DirPut(dir, writer, dir[writer] \o wbuf)
          /\ wbuf' = <<>>
          /\ stale_bytes' = 0
          /\ gen' = NewGen
          /\ index' = CompactedIndex(index, new_offsets)
          /\ rd' = [r \in Readers |->
                      IF rd[r].pc = "looked"
                      THEN [rd[r] EXCEPT !.overtaken = HandleState(rd[r])]
                      ELSE rd[r]]
          /\ wpc' = "compact_purge"
          /\ UNCHANGED <<kv, last, guards, faults>>
       \/ OpenHandlesFailed

\* compaction, lines 445-455: remove the files all_log_files names.
CompactPurge ==
    /\ wpc = "compact_purge"
    /\ UNCHANGED wop
    /\ PurgeFiles(gen, Returned("Ok"))
    /\ UNCHANGED <<index, gen, stale_bytes, writer, wbuf, reader, new_offsets,
                   kv, reopens, calls>>

(***************************************************************************)
(* The reader handles' steps.                                              *)
(***************************************************************************)
\* KvsReader::get, lines 467-469: the lookup of the key and of the meta.
Lookup(r, k) ==
    /\ wpc # "failed"
    /\ rd[r].pc # "looked"
    /\ rd' = [rd EXCEPT ![r] =
                [Looked(rd[r], k, index, gen, kv)
                    EXCEPT !.cleared = (wpc = "clear_publish")]]
    /\ UNCHANGED <<dir, index, gen, stale_bytes, writer, wbuf, reader, wpc,
                   wop, new_offsets, last, guards, kv, faults, reopens, calls>>

\* A get that counts one more stale byte for the read it made.
ReadCountsStale(r) ==
    /\ rd[r].pc = "looked"
    /\ rd' = [rd EXCEPT ![r] = Got(rd[r], dir)]
    /\ stale_bytes' = stale_bytes + 1
    /\ UNCHANGED <<dir, index, gen, writer, wbuf, reader, wpc, wop,
                   new_offsets, last, guards, kv, faults, reopens, calls>>

\* KvsReader::get, lines 470-486: open if needed, seek, decode.
Read(r) ==
    /\ rd[r].pc = "looked"
    /\ rd' = [rd EXCEPT ![r] = Got(rd[r], dir)]
    /\ UNCHANGED <<dir, index, gen, stale_bytes, writer, wbuf, reader, wpc,
                   wop, new_offsets, last, guards, kv, faults, reopens, calls>>

\* The handle is dropped and replaced by a new clone of the engine's reader.
Clone(r) ==
    /\ wpc # "failed"
    /\ rd[r].pc = "done"
    /\ rd' = [rd EXCEPT ![r] = NewReader(0)]
    /\ UNCHANGED <<dir, index, gen, stale_bytes, writer, wbuf, reader, wpc,
                   wop, new_offsets, last, guards, kv, faults, reopens, calls>>

(***************************************************************************)
(* ThreadedKvsClient::set and ThreadedKvsClient::get (src/src/client.rs).  *)
(***************************************************************************)
\* A divide_work that gives every thread the quotient and leaves the
\* remainder out.
divide_work_no_remainder(num_threads, num_requests) ==
    LET per_thread == num_requests \div num_threads
    IN  IF per_thread = 0 THEN <<>>
        ELSE [i \in 1..num_threads |-> per_thread]

\* divide_work: num_requests spread over the threads, the remainder one each
\* to the first threads, cut at the first thread that would get nothing.
divide_work(num_threads, num_requests) ==
    LET per_thread == num_requests \div num_threads
        remainder == num_requests % num_threads
        all == [i \in 1..num_threads |->
                   IF i <= remainder THEN per_thread + 1 ELSE per_thread]
        taken == CHOOSE n \in 0..num_threads :
                    /\ \A i \in 1..n : all[i] > 0
                    /\ n < num_threads => all[n + 1] = 0
    IN  SubSeq(all, 1, taken)

\* How a batch job can end: every response fine, KvsClient::new failing, the
\* sending of the batch failing, an error among the responses, and for get
\* the handler returning an error.
BatchOutcomes(op) ==
    {"Ok", "Connect", "Send", "Response"}
        \cup (IF op = "get" THEN {"Handler"} ELSE {})

\* A job that stores its own result whatever it is.
RecordedAlways(res, b, outcome) ==
    IF outcome = "Ok" THEN OkResult ELSE ErrResult(b, outcome)

\* The match of lines 213-221 and 264-276: only an error is stored.
Recorded(res, b, outcome) ==
    IF outcome = "Ok" THEN res ELSE ErrResult(b, outcome)

\* set or get is called with num_requests pairs or keys, lines 192-197.
ThreadedCall(op, num_requests) ==
    /\ tcall.pc = "new"
    /\ tcall' = [pc |-> "spawning", op |-> op,
                 num_requests |-> num_requests, result |-> "Pending"]
    /\ distribution' = divide_work(threads, num_requests)
    /\ jobs' = <<>>
    /\ result' = OkResult
    /\ wg' = 1
    /\ UNCHANGED threads

\* One turn of the loop, lines 199-225: clone the result and the WaitGroup and
\* hand the job to the pool.
Spawn ==
    /\ tcall.pc = "spawning"
    /\ Len(jobs) < Len(distribution)
    /\ jobs' = Append(jobs, [pc |-> "queued", outcome |-> "Pending"])
    /\ wg' = wg + 1
    /\ UNCHANGED <<threads, tcall, distribution, result>>

\* wg.wait(), line 228: the caller gives up its own clone and blocks.
WaitBegin ==
    /\ tcall.pc = "spawning"
    /\ Len(jobs) = Len(distribution)
    /\ tcall' = [tcall EXCEPT !.pc = "waiting"]
    /\ wg' = wg - 1
    /\ UNCHANGED <<threads, distribution, jobs, result>>

\* A thread of the pool takes job b.
JobStart(b) ==
    /\ jobs[b].pc = "queued"
    /\ jobs' = [jobs EXCEPT ![b].pc = "running"]
    /\ UNCHANGED <<threads, tcall, distribution, result, wg>>

\* Job b has sent its batch and read the responses, and reports under the
\* lock of the result, lines 208-221.
JobRecord(b, outcome) ==
    /\ jobs[b].pc = "running"
    /\ outcome \in BatchOutcomes(tcall.op)
    /\ jobs' = [jobs EXCEPT ![b] = [pc |-> "recorded", outcome |-> outcome]]
    /\ result' = Recorded(result, b, outcome)
    /\ UNCHANGED <<threads, tcall, distribution, wg>>

\* drop(wg), line 223, the last statement of the job.
JobDrop(b) ==
    /\ jobs[b].pc = "recorded"
    /\ jobs' = [jobs EXCEPT ![b].pc = "done"]
    /\ wg' = wg - 1
    /\ UNCHANGED <<threads, tcall, distribution, result>>

\* wait returns when no clone is left; the call takes the result out of the
\* mutex, lines 230-231.
ThreadedReturn ==
    /\ tcall.pc = "waiting"
    /\ wg = 0
    /\ tcall' = [tcall EXCEPT !.pc = "returned", !.result = result.tag]
    /\ result' = OkResult
    /\ UNCHANGED <<threads, distribution, jobs, wg>>

ClientNext ==
    \/ \E op \in {"set", "get"}, n \in 0..MaxRequests : ThreadedCall(op, n)
    \/ Spawn
    \/ WaitBegin
    \/ \E b \in DOMAIN jobs : JobStart(b)
    \/ \E b \in DOMAIN jobs, o \in BatchOutcomes("get") : JobRecord(b, o)
    \/ \E b \in DOMAIN jobs : JobDrop(b)
    \/ ThreadedReturn

(***************************************************************************)
(* KvsServer::run and KvsServer::shutdown (src/src/server.rs).             *)
(***************************************************************************)
\* run returns res: its TcpListener is dropped, and the connections still in
\* the accept queue with it.
RunReturned(res) ==
    /\ run' = [pc |-> "returned", stream |-> "none", result |-> res]
    /\ listener' = IF listener = "listening" THEN "closed" ELSE listener
    /\ incoming' = <<>>

\* run, lines 67-70: bind the listener, or return the error of bind.
Bind ==
    /\ run.pc = "bind"
    /\ \/ /\ listener' = "listening"
          /\ run' = [run EXCEPT !.pc = "accept"]
          /\ UNCHANGED <<incoming, net_faults>>
       \/ /\ net_faults > 0
          /\ net_faults' = net_faults - 1
          /\ RunReturned("Err")
    /\ UNCHANGED <<channel, shutdown, spawned, clients>>

\* A client connects to the listening address: its connection waits in the
\* accept queue.
ClientConnect ==
    /\ listener = "listening"
    /\ clients > 0
    /\ Len(incoming) < MaxBacklog
    /\ clients' = clients - 1
    /\ incoming' = Append(incoming, "client")
    /\ UNCHANGED <<listener, channel, run, shutdown, spawned, net_faults>>

\* run, line 72: listener.incoming() yields the next connection, blocking
\* while the accept queue is empty, or yields the error of a failed accept.
Accept ==
    /\ run.pc = "accept"
    /\ \/ /\ incoming # <<>>
          /\ run' = [run EXCEPT !.pc = "check", !.stream = Head(incoming)]
          /\ incoming' = Tail(incoming)
          /\ UNCHANGED net_faults
       \/ /\ net_faults > 0
          /\ net_faults' = net_faults - 1
          /\ run' = [run EXCEPT !.pc = "check", !.stream = "error"]
          /\ UNCHANGED incoming
    /\ UNCHANGED <<listener, channel, shutdown, spawned, clients>>

\* run, lines 76-85 and 141: break and return Ok if try_recv takes a message;
\* else return the accept error, or hand the stream to the pool and loop.
Serve ==
    /\ run.pc = "check"
    /\ \/ /\ channel > 0
          /\ channel' = channel - 1
          /\ RunReturned("Ok")
          /\ UNCHANGED spawned
       \/ /\ channel = 0
          /\ run.stream = "error"
          /\ RunReturned("Err")
          /\ UNCHANGED <<channel, spawned>>
       \/ /\ channel = 0
          /\ run.stream # "error"
          /\ spawned' = spawned + 1
          /\ run' = [run EXCEPT !.pc = "accept", !.stream = "none"]
          /\ UNCHANGED <<listener, incoming, channel>>
    /\ UNCHANGED <<shutdown, clients, net_faults>>

\* The positions of run inside its accept loop, lines 72-139.
InLoop == {"accept", "check"}

\* shutdown, line 48: send on the bounded(1) channel, blocking while it is full.
ShutdownSend ==
    /\ shutdown.pc = "new"
    /\ run.pc # "new"
    /\ channel < 1
    /\ channel' = channel + 1
    /\ shutdown' = [shutdown EXCEPT !.pc = "connect",
                                    !.accepting = (run.pc \in InLoop)]
    /\ UNCHANGED <<listener, incoming, run, spawned, clients, net_faults>>

\* shutdown, lines 52-57: the connection errors that are ignored.
ConnectErrorIgnored(kind) ==
    kind \in {"ConnectionRefused", "AddrNotAvailable"}

\* shutdown, lines 51-61: connect to the address of the server.  The connection
\* is queued by a listening socket with room in its accept queue; it is refused
\* when nothing listens (and, on systems that refuse rather than drop, when
\* the queue is full); it fails with AddrNotAvailable when the connecting side
\* has no local port left, and with other errors (a timeout on a full queue).
ShutdownConnect ==
    /\ shutdown.pc = "connect"
    /\ \/ /\ listener = "listening"
          /\ Len(incoming) < MaxBacklog
          /\ incoming' = Append(incoming, "wake")
          /\ shutdown' = [shutdown EXCEPT !.pc = "returned", !.result = "Ok"]
          /\ UNCHANGED net_faults
       \/ \E kind \in {"ConnectionRefused", "AddrNotAvailable", "TimedOut"} :
          /\ \/ /\ kind = "ConnectionRefused"
                /\ \/ listener # "listening"
                   \/ Len(incoming) >= MaxBacklog
                /\ UNCHANGED net_faults
             \/ /\ kind = "TimedOut"
                /\ listener = "listening"
                /\ Len(incoming) >= MaxBacklog
                /\ UNCHANGED net_faults
             \/ /\ kind = "AddrNotAvailable"
                /\ net_faults > 0
                /\ net_faults' = net_faults - 1
          /\ shutdown' = [shutdown EXCEPT
                             !.pc = "returned",
                             !.result = IF ConnectErrorIgnored(kind)
                                        THEN "Ok" ELSE "Err"]
          /\ UNCHANGED incoming
    /\ UNCHANGED <<listener, channel, run, spawned, clients>>

ServerNext ==
    \/ Bind
    \/ ClientConnect
    \/ Accept
    \/ Serve
    \/ ShutdownSend
    \/ ShutdownConnect

(***************************************************************************)
(* SharedQueueThreadPool (src/src/thread_pool.rs).                         *)
(***************************************************************************)
\* spawn, lines 83-85: send the job on the channel.  The job may be one that
\* panics when it is run.
PoolSpawn(panics) ==
    /\ sender = "alive"
    /\ sent < MaxJobs
    /\ sent' = sent + 1
    /\ queue' = Append(queue, [id |-> sent + 1, panics |-> panics,
                                after |-> Len(finished)])
    /\ UNCHANGED <<sender, workers, receiver, received, finished>>

\* The pool is dropped, and its Sender with it.
PoolDrop ==
    /\ sender = "alive"
    /\ sender' = "dropped"
    /\ UNCHANGED <<queue, workers, receiver, received, finished, sent>>

\* A worker whose thread ends when a job has panicked.
AfterPanicDies == "dead"

\* Lines 48 and 58-60: catch_unwind returns the panic as an Err, the worker
\* logs it and goes round its loop.
AfterPanic == "loop"

\* Lines 52 and 48-61: recv has failed because the sender is gone; the return
\* leaves the closure given to catch_unwind, which returns Ok, the if let
\* does not match, and the worker goes round its loop.
AfterDisconnect == "loop"

\* receiver.lock().expect("mutex poisoned"), line 49: the worker at the top of
\* its loop takes the lock when it is free; on a poisoned lock expect
\* panics inside catch_unwind.
WorkerLock(w) ==
    /\ workers[w].pc = "loop"
    /\ IF receiver.poisoned
       THEN /\ workers' = [workers EXCEPT ![w].pc = AfterPanic]
            /\ UNCHANGED receiver
       ELSE /\ receiver.holder = "none"
            /\ receiver' = [receiver EXCEPT !.holder = w]
            /\ workers' = [workers EXCEPT ![w].pc = "locked"]
    /\ UNCHANGED <<sender, queue, received, finished, sent>>

\* A recv that hands out the first job and leaves it in the channel.
AfterRecvKept(q) == q

\* The channel after recv has returned its first job.
AfterRecv(q) == Tail(q)

\* recv(), lines 49-53, under the lock: it returns the oldest job, blocks
\* while the channel is empty and the sender alive, and fails once the
\* channel is empty and the sender dropped.  The guard is a temporary of the
\* let statement: it is dropped before the job runs.
WorkerRecv(w) ==
    /\ workers[w].pc = "locked"
    /\ receiver' = [receiver EXCEPT !.holder = "none"]
    /\ \/ /\ queue # <<>>
          /\ queue' = AfterRecv(queue)
          /\ received' = Append(received, Head(queue).id)
          /\ workers' = [workers EXCEPT ![w] =
                            [pc |-> "running", job |-> Head(queue)]]
       \/ /\ queue = <<>>
          /\ sender = "dropped"
          /\ workers' = [workers EXCEPT ![w].pc = AfterDisconnect]
          /\ UNCHANGED <<queue, received>>
    /\ UNCHANGED <<sender, finished, sent>>

\* job(), line 56: the job runs to its end or panics.
WorkerRun(w) ==
    /\ workers[w].pc = "running"
    /\ finished' = Append(finished, workers[w].job)
    /\ workers' = [workers EXCEPT ![w] =
                      [pc |-> IF workers[w].job.panics THEN AfterPanic
                              ELSE "loop",
                       job |-> NoJob]]
    /\ UNCHANGED <<sender, queue, receiver, received, sent>>

PoolNext ==
    \/ \E panics \in BOOLEAN : PoolSpawn(panics)
    \/ PoolDrop
    \/ \E w \in Workers : WorkerLock(w)
    \/ \E w \in Workers : WorkerRecv(w)
    \/ \E w \in Workers : WorkerRun(w)

\* ---------------------------------------------------------------------
\* One connection: the batch a KvsClient writes and the jobs of KvsServer::run
\* that read its requests and write its responses.
\* ---------------------------------------------------------------------

\* The batch sizes a KvsClient is given: the small ones, whose jobs are
\* followed step by step, and the ones just past the largest u8.
BatchSizes == (0..MaxLen) \cup (U8..MaxBatch)

\* batch_size as u8, client.rs:109: the cast keeps the low eight bits.
LengthByte(batch_size) == batch_size % U8

\* KvsClient::set, get or remove on batch_size items: the length byte, then
\* one request per item, then the flush and the shutdown of the write half.
KvsClientSend(batch_size) ==
    /\ ~wire.sent
    /\ wire' = [sent |-> TRUE, len |-> LengthByte(batch_size),
                requests |-> batch_size]
    /\ unread' = batch_size
    /\ UNCHANGED <<conn, reqs, conn_reader, conn_writer, handled, responses>>

\* A request job that has not started.
NewReq == [pc |-> "queued", resp |-> "none"]

\* The connection job, server.rs:85-138: it reads the length byte; on 0 it
\* writes one Error message and returns, otherwise it spawns one job for each
\* of the len requests.
ConnStart ==
    /\ wire.sent
    /\ conn.pc = "new"
    /\ IF wire.len = 0
       THEN /\ conn' = [pc |-> "done", len |-> 0]
            /\ responses' = <<[req |-> 0, kind |-> "Error"]>>
            /\ UNCHANGED reqs
       ELSE /\ conn' = [pc |-> "spawned", len |-> wire.len]
            /\ reqs' = [j \in 1..wire.len |-> NewReq]
            /\ UNCHANGED responses
    /\ UNCHANGED <<wire, unread, conn_reader, conn_writer, handled>>

\* lock().unwrap() of a job j on the mutex m: it waits for the holder, then
\* panics if the mutex is poisoned and holds it otherwise.
Locked(m, j) == [m EXCEPT !.holder = ToString(j)]

\* A guard dropped by a thread that is panicking poisons its mutex.
Poisoned == [holder |-> "none", poisoned |-> TRUE]

\* reader.lock().unwrap(), server.rs:117.
ReqLock(j) ==
    /\ reqs[j].pc = "queued"
    /\ conn_reader.holder = "none"
    /\ IF conn_reader.poisoned
       THEN /\ reqs' = [reqs EXCEPT ![j].pc = "panicked"]
            /\ UNCHANGED conn_reader
       ELSE /\ reqs' = [reqs EXCEPT ![j].pc = "reading"]
            /\ conn_reader' = Locked(conn_reader, j)
    /\ UNCHANGED <<wire, conn, unread, conn_writer, handled, responses>>

\* serde_cbor::from_reader on a stream that still holds left whole messages:
\* it decodes one value and then requires the end of the input, so it is Ok
\* only on the last message of the stream (protocol.rs:29; client.rs:97-98
\* shuts the write half down so that this read finishes).
from_reader(left) == IF left = 1 THEN "Ok" ELSE "Err"

\* Message::read(..).expect("message read error"), server.rs:117-118: the
\* guard of the reader lives to the end of the statement, so the panic of
\* expect drops it while unwinding.
ReqRead(j) ==
    /\ reqs[j].pc = "reading"
    /\ unread' = IF unread = 0 THEN 0 ELSE unread - 1
    /\ IF from_reader(unread) = "Ok"
       THEN /\ reqs' = [reqs EXCEPT ![j].pc = "read"]
            /\ conn_reader' = FreeMutex
       ELSE /\ reqs' = [reqs EXCEPT ![j].pc = "panicked"]
            /\ conn_reader' = Poisoned
    /\ UNCHANGED <<wire, conn, conn_writer, handled, responses>>

\* handle_request, server.rs:121-131: one engine operation, answered by an
\* Array on Ok and by an Error on Err.
ReqHandle(j, kind) ==
    /\ reqs[j].pc = "read"
    /\ handled' = handled + 1
    /\ reqs' = [reqs EXCEPT ![j] = [pc |-> "handled", resp |-> kind]]
    /\ UNCHANGED <<wire, conn, unread, conn_reader, conn_writer, responses>>

\* writer.lock().unwrap(), server.rs:133.
ReqWriteLock(j) ==
    /\ reqs[j].pc = "handled"
    /\ conn_writer.holder = "none"
    /\ IF conn_writer.poisoned
       THEN /\ reqs' = [reqs EXCEPT ![j].pc = "panicked"]
            /\ UNCHANGED conn_writer
       ELSE /\ reqs' = [reqs EXCEPT ![j].pc = "writing"]
            /\ conn_writer' = Locked(conn_writer, j)
    /\ UNCHANGED <<wire, conn, unread, conn_reader, handled, responses>>

\* resp.write(..), server.rs:133-134: the response goes whole into the
\* buffered writer and the guard is dropped.
ReqWrite(j) ==
    /\ reqs[j].pc = "writing"
    /\ responses' = Append(responses, [req |-> j, kind |-> reqs[j].resp])
    /\ conn_writer' = FreeMutex
    /\ reqs' = [reqs EXCEPT ![j].pc = "done"]
    /\ UNCHANGED <<wire, conn, unread, conn_reader, handled>>

ConnNext ==
    \/ \E batch_size \in BatchSizes : KvsClientSend(batch_size)
    \/ ConnStart
    \/ \E j \in DOMAIN reqs : ReqLock(j)
    \/ \E j \in DOMAIN reqs : ReqRead(j)
    \/ \E j \in DOMAIN reqs, kind \in {"Array", "Error"} : ReqHandle(j, kind)
    \/ \E j \in DOMAIN reqs : ReqWriteLock(j)
    \/ \E j \in DOMAIN reqs : ReqWrite(j)

\* The calls of the threads that share the writer lock, step by step.
WriterNext ==
    \/ \E t \in Threads : Lock(t)
    \/ \E k \in Keys, v \in Values : SetAppend(k, v)
    \/ SetPublish
    \/ \E k \in Keys : RemoveKeyNotFound(k)
    \/ \E k \in Keys : RemoveAppend(k)
    \/ RemovePublish
    \/ ClearPurge
    \/ ClearTruncate
    \/ ClearPublish
    \/ CompactCopy
    \/ CompactRename
    \/ CompactPublish
    \/ CompactPurge

EngineNext ==
    \/ WriterNext
    \/ Reopen

Next == EngineNext /\ UNCHANGED <<server_vars, front_vars>>

\* The engine under I/O faults, crashes and restarts.
Spec == Init /\ [][Next]_vars

\* The engine opened on a directory that is empty or holds a stray file, with
\* reader handles running gets beside the writer; no faults, no restart.
InitReaders ==
    /\ \E d \in {EmptyDir, DirPut(EmptyDir, StrayPath, <<"R">>)} :
          Constructed(d)
    /\ faults = 0
    /\ reopens = 0
    /\ NoServer
    /\ NoClient

EngineNextReaders ==
    \/ WriterNext
    \/ \E r \in Readers, k \in Keys : Lookup(r, k)
    \/ \E r \in Readers : Read(r)
    \/ \E r \in Readers : Clone(r)

NextReaders == EngineNextReaders /\ UNCHANGED <<server_vars, front_vars>>

SpecReaders == InitReaders /\ [][NextReaders]_vars

\* The records a log may hold, the logs of up to MaxRecords whole records, and
\* those logs cut at any byte.
Records ==
    {EncodeCmd(SetCmd(k, v)) : k \in Keys, v \in Values}
        \cup {EncodeCmd(RemoveCmd(k)) : k \in Keys}

RECURSIVE WholeLogs(_)
WholeLogs(n) ==
    IF n = 0 THEN {<<>>}
    ELSE WholeLogs(n - 1)
             \cup {l \o r : l \in WholeLogs(n - 1), r \in Records}

Logs == UNION {{Take(l, n) : n \in 0..Len(l)} : l \in WholeLogs(MaxRecords)}

\* KvStore::open, lines 168-200, on a directory that holds a log of generation
\* 0: the files are open and build_index is about to replay the log.  Until
\* open returns no handle exists; index holds the map build_index rebuilds
\* (its local HashMap), and wop.range the offsets of the record replayed last.
InitOpen ==
    /\ \E bytes \in Logs : dir = DirPut(EmptyDir, log_path(0), bytes)
    /\ gen = OpenGen(dir)
    /\ index = EmptyIndex
    /\ stale_bytes = 0
    /\ writer = log_path(gen)
    /\ reader = log_path(gen)
    /\ wbuf = <<>>
    /\ wpc = "replay"
    /\ wop = [op |-> "open", key |-> "a", value |-> NoValue,
              range |-> Range(0, 0), gen |-> gen, before |-> NoMapping]
    /\ new_offsets = EmptyIndex
    /\ last = [op |-> "open", key |-> "a", value |-> NoValue,
               res |-> "Pending", at |-> "replay"]
    /\ rd = [r \in Readers |-> NewReader(gen)]
    /\ kv = [k \in Keys |-> NoValue]
    /\ faults = 0
    /\ reopens = 0
    /\ calls = 0
    /\ guards = {}
    /\ NoServer
    /\ NoClient

\* build_index, lines 279-310: one turn of the loop.  An error ends open, and
\* no engine is returned.
ReplayRecord ==
    /\ wpc = "replay"
    /\ ~AtEof(dir[reader], wop.range[2])
    /\ \E s \in {ReplayOne(dir[reader], wop.range[2], index, stale_bytes)} :
        IF s.err = "Ok"
        THEN /\ index' = s.index
             /\ stale_bytes' = s.stale
             /\ wop' = [wop EXCEPT !.range = Range(wop.range[2], s.end)]
             /\ UNCHANGED <<wpc, last>>
        ELSE /\ index' = EmptyIndex
             /\ stale_bytes' = 0
             /\ wpc' = "failed"
             /\ last' = [last EXCEPT !.res = s.err]
             /\ UNCHANGED wop
    /\ UNCHANGED <<dir, gen, writer, wbuf, reader, new_offsets, rd, kv, faults,
                   reopens, calls, guards>>

\* build_index, lines 312-316, and open, lines 204-207: at the end of the
\* file the rebuilt map is published and the engine is returned.
ReplayEnd ==
    /\ wpc = "replay"
    /\ AtEof(dir[reader], wop.range[2])
    /\ wpc' = "idle"
    /\ last' = [last EXCEPT !.res = "Ok", !.at = "open"]
    /\ kv' = [k \in Keys |->
                IF k \in DOMAIN index
                THEN DecodeAt(dir[reader], index[k][1]).cmd.value
                ELSE NoValue]
    /\ UNCHANGED <<dir, index, gen, stale_bytes, writer, wbuf, reader, wop,
                   new_offsets, rd, faults, reopens, calls, guards>>

EngineNextOpen ==
    \/ ReplayRecord
    \/ ReplayEnd

NextOpen == EngineNextOpen /\ UNCHANGED <<server_vars, front_vars>>

\* open replaying a log that a previous engine, a crash or a truncation left.
SpecOpen == InitOpen /\ [][NextOpen]_vars

\* The server in front of an engine that is not called: run, one shutdown, and
\* clients connecting.  The thread of run is scheduled whenever it can step;
\* shutdown, once called, runs to its end; clients need never connect.
\* ThreadedKvsClient::new(addr, threads) with one thread or more.
InitClient ==
    /\ Constructed(EmptyDir)
    /\ faults = 0
    /\ reopens = 0
    /\ NoServer
    /\ threads \in 1..PoolThreads
    /\ NewClient
    /\ NewPool
    /\ NewConn

NextClient ==
    ClientNext /\ UNCHANGED <<engine_vars, server_vars, pool_vars, conn_vars>>

\* One call of ThreadedKvsClient::set or get and the batch jobs it spawns.
SpecClient == InitClient /\ [][NextClient]_vars

\* The variables the pool does not touch.
not_pool_vars == <<engine_vars, server_vars, client_vars, conn_vars>>

InitPool ==
    /\ Constructed(EmptyDir)
    /\ faults = 0
    /\ reopens = 0
    /\ NoServer
    /\ NoClient

NextPool == PoolNext /\ UNCHANGED not_pool_vars

\* A SharedQueueThreadPool of two workers, the jobs spawned on it and its drop.
SpecPool == InitPool /\ [][NextPool]_vars

\* The same with the scheduler running every worker that can take a step.
SpecPoolFair ==
    /\ InitPool
    /\ [][NextPool]_vars
    /\ \A w \in Workers :
        /\ WF_vars(WorkerLock(w) /\ UNCHANGED not_pool_vars)
        /\ WF_vars(WorkerRecv(w) /\ UNCHANGED not_pool_vars)
        /\ WF_vars(WorkerRun(w) /\ UNCHANGED not_pool_vars)

InitConn ==
    /\ Constructed(EmptyDir)
    /\ faults = 0
    /\ reopens = 0
    /\ NoServer
    /\ NoClient

NextConn ==
    ConnNext /\ UNCHANGED <<engine_vars, server_vars, client_vars, pool_vars>>

\* One batch of a KvsClient and the connection of the server that answers it.
SpecConn == InitConn /\ [][NextConn]_vars

InitServer ==
    /\ Constructed(EmptyDir)
    /\ faults = 0
    /\ reopens = 0
    /\ ServerInit
    /\ NoClient

NextServer == ServerNext /\ UNCHANGED <<engine_vars, front_vars>>

SpecServer ==
    /\ InitServer
    /\ [][NextServer]_vars
    /\ WF_vars(Bind /\ UNCHANGED <<engine_vars, front_vars>>)
    /\ WF_vars(Accept /\ UNCHANGED <<engine_vars, front_vars>>)
    /\ WF_vars(Serve /\ UNCHANGED <<engine_vars, front_vars>>)
    /\ WF_vars(ShutdownConnect /\ UNCHANGED <<engine_vars, front_vars>>)

(***************************************************************************)
(* The claims.                                                             *)
(***************************************************************************)
\* What get returns for a key whose value is v (NoValue: no entry).
Expected(v) ==
    IF v = NoValue THEN Result("None", NoValue) ELSE Result("Some", v)

CompactionPcs ==
    {"compact_copy", "compact_rename", "compact_open", "compact_purge"}

\* The handles a next get may be issued from: every handle that is not in the
\* middle of a get, and a new clone.
GetHandles == {rd[r] : r \in {q \in Readers : rd[q].pc # "looked"}}
                  \cup {NewReader(0)}

\* C1: once set(k, v) has returned Ok, a get(k) from any reader handle returns
\* Some(v), and once remove(k) has returned Ok it returns None, also when the
\* call ran compaction.
C1_GetAfterSetOrRemove ==
    (wpc = "idle" /\ last.res = "Ok" /\ last.op \in {"set", "remove"})
        => \A h \in GetHandles : GetNow(h, last.key) = Expected(last.value)

\* A set that ran compaction has returned Ok, and a handle that still caches
\* the file of the older generation is about to get.
C1_Witness ==
    /\ wpc = "idle" /\ last.res = "Ok" /\ last.op = "set"
    /\ last.at = "compact_purge"
    /\ Len(dir[log_path(gen)]) > Len(EncodeCmd(SetCmd(last.key, last.value)))
    /\ \E r \in Readers :
        rd[r].pc = "done" /\ rd[r].file.kind = "path" /\ rd[r].gen < gen

\* C2: opening the directory again after any sequence of set and remove calls
\* that all returned (faults aside) gives every key the value it had.
C2_ReopenKeepsMapping ==
    [][(wpc = "idle" /\ reopens' # reopens /\ faults = MaxFaults)
          => Mapping' = Mapping]_vars

\* C3 as stated: every get that has returned gave the value its key had when
\* the get looked it up (a value of a completed set, or None), never a decode
\* failure or a panic, whatever the writer did in between (clear included).
C3_GetReturnsCompletedValue ==
    \A r \in Readers :
        rd[r].pc = "done" => rd[r].result = Expected(rd[r].snap)

\* C3 as amended: the same of every get that did not overlap a clear (no
\* truncation by clear between its lookup and its read, and no lookup between
\* clear's truncation and clear's refresh).
C3_GetReturnsCompletedValueUnlessCleared ==
    \A r \in Readers :
        (rd[r].pc = "done" /\ ~rd[r].cleared)
            => rd[r].result = Expected(rd[r].snap)

\* A get returned the value it looked up although the writer has replaced the
\* key's value since the lookup and is in the middle of a call.
C3_Witness ==
    \E r \in Readers :
        /\ rd[r].pc = "done" /\ ~rd[r].cleared
        /\ rd[r].result.tag = "Some"
        /\ kv[rd[r].key] # rd[r].snap
        /\ wpc \notin {"idle", "failed"}

\* Every entry of the published index names one whole Set record of its key in
\* the log file of the published generation.
IndexValid ==
    \A k \in DOMAIN index :
        /\ log_path(gen) \in DOMAIN dir
        /\ Len(dir[log_path(gen)]) >= index[k][2]
        /\ DecodeAt(dir[log_path(gen)], index[k][1]).ok
        /\ DecodeAt(dir[log_path(gen)], index[k][1]).cmd.type = "Set"
        /\ DecodeAt(dir[log_path(gen)], index[k][1]).cmd.key = k
        /\ DecodeAt(dir[log_path(gen)], index[k][1]).end = index[k][2]

\* C4 as stated: the published index is valid between any two steps of set,
\* remove, clear and compaction, and after open.
C4_IndexValidAlways == IndexValid

\* C4 as amended: the same, except between clear's truncation of the log and
\* clear's refresh of the purged index.
C4_IndexValidExceptInClear == wpc # "clear_publish" => IndexValid

\* Compaction has renamed the scratch file while two entries are published.
C4_Witness ==
    /\ wpc = "compact_open"
    /\ Cardinality(DOMAIN index) = 2
    /\ log_path(gen + 1) \in DOMAIN dir

\* C5: no step of a compaction changes what get returns for any key, nor the
\* set of keys of the index.
C5_CompactionTransparent ==
    [][(wpc \in CompactionPcs /\ reopens' = reopens)
          => (Mapping' = Mapping /\ DOMAIN index' = DOMAIN index)]_vars

\* A compaction has published two entries, one of them at a new offset.
C5_Witness ==
    /\ wpc = "compact_purge"
    /\ Cardinality(DOMAIN index) = 2
    /\ \E k \in DOMAIN index : index[k][1] > 0 /\ index[k] # wop.range

\* C6: remove(k) of a key with no entry returns KeyNotFound and changes neither
\* the log, the index, the generation nor stale_bytes, and runs no compaction.
C6_RemoveMissingChangesNothing ==
    [][(\E k \in Keys :
            /\ wpc = "locked" /\ calls' # calls
            /\ wop'.op = "remove" /\ wop'.key = k
            /\ IndexGet(index, k) = NoRange)
          => /\ last'.res = "KeyNotFound"
             /\ wpc' = "idle"
             /\ UNCHANGED <<dir, index, gen, stale_bytes, wbuf>>]_vars

\* remove of a missing key has returned KeyNotFound on a log that is not empty.
C6_Witness ==
    /\ last.op = "remove" /\ last.res = "KeyNotFound" /\ wpc = "idle"
    /\ Len(dir[writer]) > 0
    /\ DOMAIN index # {}

RECURSIVE SumLen(_, _)
SumLen(idx, ks) ==
    IF ks = {} THEN 0
    ELSE LET k == CHOOSE j \in ks : TRUE
         IN  RangeLen(idx[k]) + SumLen(idx, ks \ {k})

\* The bytes of the current log that no index entry covers.
DeadBytes == Len(dir[log_path(gen)]) - SumLen(index, DOMAIN index)

\* C7: whenever the writer is between calls (after open's replay and after
\* every set, remove, clear and compaction), stale_bytes is at most the size of
\* the current log minus the lengths of the index entries.
C7_StaleBytesBound == wpc = "idle" => stale_bytes <= DeadBytes

\* A remove has returned: its own record is dead but not counted as stale.
C7_Witness ==
    /\ wpc = "idle" /\ last.op = "remove" /\ last.res = "Ok"
    /\ stale_bytes > 0 /\ stale_bytes < DeadBytes

\* C8: no step of a set or remove outside compaction lowers stale_bytes, and
\* stale_bytes is 0 when compaction publishes, when a call that compacted
\* returns Ok, and when clear returns Ok.
C8_StaleBytesMonotone ==
    /\ [][reopens' = reopens =>
            /\ wpc \notin {"compact_open", "clear_publish"}
                   => stale_bytes' >= stale_bytes
            /\ (wpc = "compact_open" /\ wpc' = "compact_purge")
                   => stale_bytes' = 0
            /\ wpc = "clear_publish" => stale_bytes' = 0]_vars
    /\ [](wpc = "idle" /\ last.res = "Ok"
            /\ (last.at = "compact_purge" \/ last.op = "clear")
          => stale_bytes = 0)

\* A remove that did not compact has returned and left stale bytes.
C8_Witness ==
    /\ wpc = "idle" /\ last.op = "remove" /\ last.res = "Ok"
    /\ last.at = "remove_publish"
    /\ stale_bytes > 0

\* C9: the writer's append handle and read handle are always open on the log
\* of the published generation, and a compaction that fails before it
\* publishes leaves index, generation and both handles as they were.
C9_FailedCompactionKeepsGeneration ==
    /\ [](wpc # "failed" =>
            writer = log_path(gen) /\ reader = log_path(gen))
    /\ [][(wpc \in {"compact_copy", "compact_rename", "compact_open"}
            /\ wpc' = "idle" /\ reopens' = reopens)
          => /\ last'.res = "Err"
             /\ UNCHANGED <<index, gen, writer, reader>>]_vars

\* A compaction failed to open the renamed log: the file of the next generation
\* exists, the writer is still on the old one.
C9_Witness ==
    /\ wpc = "idle" /\ last.res = "Err" /\ last.at = "compact_open"
    /\ log_path(gen + 1) \in DOMAIN dir
    /\ DOMAIN index # {}

C20_ShutdownStopsRun ==
    (shutdown.result = "Ok" /\ shutdown.accepting) ~> (run.result = "Ok")

\* The generations that have a log file kvs_<generation>.cbor in directory d,
\* and the largest of them (0 if there is none).
LogGens(d) == {g \in 0..MaxCalls : log_path(g) \in DOMAIN d}
MaxLogGen(d) ==
    IF LogGens(d) = {} THEN 0
    ELSE CHOOSE g \in LogGens(d) : \A h \in LogGens(d) : h <= g

\* C11: when open has returned, the generation it selected is the largest
\* generation that has a log file in the directory (0 if the directory had
\* none), and it replayed and appends to the log file of that generation.
C11_OpenSelectsMaxGeneration ==
    (wpc \in {"idle", "failed"} /\ last.op = "open")
        => /\ gen = MaxLogGen(dir)
           /\ writer = log_path(gen)
           /\ reader = log_path(gen)

\* C12: when open has returned an engine, the directory holds no scratch file
\* kvs_compact.cbor, whatever an earlier compaction left behind.
C12_OpenDeletesScratch ==
    (wpc = "idle" /\ last.op = "open")
        => compacted_log_path \notin DOMAIN dir

\* C13: when clear has returned Ok, get returns None for every key,
\* stale_bytes is 0, and the only log file of the directory is the log of the
\* current generation, of length zero.
C13_ClearLeavesOneEmptyLog ==
    (wpc = "idle" /\ last.op = "clear" /\ last.res = "Ok")
        => /\ \A k \in Keys : Mapping[k] = Result("None", NoValue)
           /\ stale_bytes = 0
           /\ LogGens(dir) = {gen}
           /\ dir[log_path(gen)] = <<>>

\* C14: a turn of build_index's loop that meets a Remove{k} record fails open
\* with CorruptData (no engine is returned) if the index being rebuilt has no
\* entry for k, and else deletes the entry of k and adds its length to
\* stale_bytes.
C14_ReplayRemove ==
    [][LET d == DecodeAt(dir[reader], wop.range[2])
           k == d.cmd.key
       IN  (/\ wpc = "replay" /\ wop.range[2] < Len(dir[reader])
            /\ d.ok /\ d.cmd.type = "Remove")
           => IF IndexGet(index, k) = NoRange
              THEN wpc' = "failed" /\ last'.res = "CorruptData"
              ELSE /\ wpc' = "replay"
                   /\ index' = IndexEmpty(index, k)
                   /\ stale_bytes' = stale_bytes + RangeLen(index[k])]_vars

\* open has failed with CorruptData on a Remove that follows a Remove of a key
\* that had an entry.
C14_Witness ==
    /\ wpc = "failed" /\ last.res = "CorruptData"
    /\ wop.range[2] > 0
    /\ DecodeAt(dir[reader], wop.range[1]).cmd.type = "Remove"

\* Whether bytes from offset pos on is a sequence of whole records, so that the
\* file ends at a record boundary.
RECURSIVE WholeRecords(_, _)
WholeRecords(bytes, pos) ==
    IF pos >= Len(bytes) THEN TRUE
    ELSE IF ~DecodeAt(bytes, pos).ok THEN FALSE
    ELSE WholeRecords(bytes, DecodeAt(bytes, pos).end)

\* The record open stopped at is a whole Remove record.
StoppedAtRemove ==
    /\ DecodeAt(dir[reader], wop.range[2]).ok
    /\ DecodeAt(dir[reader], wop.range[2]).cmd.type = "Remove"

OnlyLiveRecords(d, g, idx) ==
    /\ Len(d[log_path(g)]) = SumLen(idx, DOMAIN idx)
    /\ \A k \in DOMAIN idx :
          0 <= idx[k][1] /\ idx[k][1] < idx[k][2]
              /\ idx[k][2] <= Len(d[log_path(g)])
    /\ \A k, j \in DOMAIN idx :
          k # j => idx[k][2] <= idx[j][1] \/ idx[j][2] <= idx[k][1]

\* C16: when compaction publishes the new generation, and when the call that
\* compacted returns Ok, the new log holds only the records of the index
\* entries (its size is the sum of their lengths, they are pairwise disjoint
\* and cover the file), and every entry has the length it had before.
C16_CompactedLogIsLive ==
    /\ [][(wpc = "compact_open" /\ wpc' = "compact_purge")
            => /\ OnlyLiveRecords(dir', gen', index')
               /\ DOMAIN index' = DOMAIN index
               /\ \A k \in DOMAIN index :
                     RangeLen(index'[k]) = RangeLen(index[k])]_vars
    /\ []((wpc = "idle" /\ last.at = "compact_purge" /\ last.res = "Ok")
            => OnlyLiveRecords(dir, gen, index))

\* A compaction of two entries of different lengths has returned Ok.
C16_Witness ==
    /\ wpc = "idle" /\ last.at = "compact_purge" /\ last.res = "Ok"
    /\ Cardinality(DOMAIN index) = 2
    /\ \E k, j \in DOMAIN index : RangeLen(index[k]) < RangeLen(index[j])

C18_SingleWriterFreeReaders ==
    /\ [](Cardinality(guards) <= 1)
    /\ [](wpc \notin {"idle", "failed", "replay"} <=> guards # {})
    /\ [](\A r \in Readers :
            IF rd[r].pc = "looked" THEN ENABLED Read(r)
            ELSE \A k \in Keys : ENABLED Lookup(r, k))
    /\ [][\A r \in Readers :
            rd'[r].pc # rd[r].pc => UNCHANGED <<guards, wpc>>]_vars

\* A get has looked up and read the generation a compaction published while
\* the thread that runs the compaction still holds the lock.
C18_Witness ==
    /\ wpc = "compact_purge" /\ guards # {} /\ gen > 0
    /\ \E r \in Readers :
        /\ rd[r].pc = "done" /\ rd[r].result.tag = "Some"
        /\ rd[r].file = OpenFile(log_path(gen)) /\ rd[r].gen = gen

\* C19: the refresh of a set(k, v) that follows a set(k, v) that returned Ok
\* leaves one entry for k, at the record the second call appended at the end
\* of the log, adds the encoded length of the record to stale_bytes, and,
\* when no compaction follows, get(k) returns Some(v).
C19_RepeatedSet ==
    [][(/\ wpc = "set_publish" /\ reopens' = reopens
        /\ last.op = "set" /\ last.res = "Ok"
        /\ last.key = wop.key /\ last.value = wop.value)
       => /\ DOMAIN index' = DOMAIN index
          /\ index'[wop.key] = wop.range
          /\ wop.range[2] = Len(dir[writer])
          /\ RangeLen(wop.range) = Len(EncodeCmd(SetCmd(wop.key, wop.value)))
          /\ index[wop.key][2] <= wop.range[1]
          /\ stale_bytes' = stale_bytes
                 + Len(EncodeCmd(SetCmd(wop.key, wop.value)))
          /\ wpc' = "idle"
                => Mapping'[wop.key] = Result("Some", wop.value)]_vars

\* The second of two equal sets has returned without compaction: the log holds
\* the record twice, and the first one is stale.
C19_Witness ==
    /\ wpc = "idle" /\ last.op = "set" /\ last.res = "Ok"
    /\ last.at = "set_publish"
    /\ dir[writer] = EncodeCmd(SetCmd(last.key, last.value))
                         \o EncodeCmd(SetCmd(last.key, last.value))
    /\ stale_bytes = Len(EncodeCmd(SetCmd(last.key, last.value)))
    /\ index[last.key][1] = stale_bytes

\* C22: every get observes the entry of its key and the generation in one
\* published snapshot: what the lookup hands to the read is the entry and the
\* generation published at that moment, and (outside clear's window between
\* truncation and refresh) the entry names a Set record of the key in the log
\* of that very generation.
C22_GetObservesOneSnapshot ==
    [][\A r \in Readers :
        (rd[r].pc # "looked" /\ rd'[r].pc = "looked") =>
            /\ rd'[r].offset = IndexGet(index, rd'[r].key)
            /\ rd'[r].current_gen = gen
            /\ (rd'[r].offset # NoRange /\ wpc # "clear_publish") =>
                 LET dec == DecodeAt(dir[log_path(rd'[r].current_gen)],
                                     rd'[r].offset[1])
                 IN  /\ dec.ok
                     /\ dec.cmd.type = "Set"
                     /\ dec.cmd.key = rd'[r].key
                     /\ dec.end = rd'[r].offset[2]]_vars

\* A get has observed an entry under generation g, and a compaction has since
\* published generation g + 1 with other offsets for the key.
C22_Witness ==
    \E r \in Readers :
        /\ rd[r].pc = "looked"
        /\ rd[r].offset # NoRange
        /\ rd[r].current_gen + 1 = gen
        /\ IndexGet(index, rd[r].key) # NoRange
        /\ IndexGet(index, rd[r].key) # rd[r].offset

\* C23: set and remove modify and publish the index only after their record
\* has been appended and flushed: when the call stands before its index update
\* nothing is buffered and the log ends with the whole record; a call whose
\* append or flush fails returns Err from there, with the published index,
\* the generation and stale_bytes as they were.
C23_PublishAfterFlush ==
    /\ [](wpc = "set_publish" =>
            /\ wbuf = <<>>
            /\ wop.range[2] = Len(dir[writer])
            /\ SubSeq(dir[writer], wop.range[1] + 1, wop.range[2])
                 = EncodeCmd(SetCmd(wop.key, wop.value)))
    /\ [](wpc = "remove_publish" =>
            /\ wbuf = <<>>
            /\ Len(dir[writer]) >= Len(EncodeCmd(RemoveCmd(wop.key)))
            /\ Drop(dir[writer],
                    Len(dir[writer]) - Len(EncodeCmd(RemoveCmd(wop.key))))
                 = EncodeCmd(RemoveCmd(wop.key)))
    /\ [][(wpc = "locked" /\ wpc' = "idle" /\ last'.res = "Err"
             /\ last'.op \in {"set", "remove"}) =>
            UNCHANGED <<index, gen, stale_bytes>>]_vars
    /\ [][(wpc = "locked" /\ wop'.op \in {"set", "remove"}) =>
            UNCHANGED <<index, gen, stale_bytes>>]_vars

\* A set onto an index that has entries failed in its flush after part of the
\* record had reached the file, and returned the error.
C23_Witness ==
    /\ wpc = "idle"
    /\ last.op = "set"
    /\ last.res = "Err"
    /\ last.at = "locked"
    /\ wbuf # <<>>
    /\ Len(dir[writer]) > wop.range[1]
    /\ DOMAIN index # {}

\* C24: a set or remove whose append succeeded invokes compaction exactly when
\* stale_bytes, once the call has updated it, is strictly above the threshold;
\* at the threshold or below it the call returns Ok without compaction and
\* the generation stays; nothing else starts a compaction.
C24_CompactionAboveThreshold ==
    /\ [][(wpc \in {"set_publish", "remove_publish"} /\ reopens' = reopens) =>
            IF stale_bytes' > COMPACTION_THRESHOLD
            THEN wpc' = "compact_copy"
            ELSE /\ wpc' = "idle"
                 /\ last'.res = "Ok"
                 /\ gen' = gen]_vars
    /\ [][(wpc # "compact_copy" /\ wpc' = "compact_copy") =>
            /\ wpc \in {"set_publish", "remove_publish"}
            /\ stale_bytes' > COMPACTION_THRESHOLD]_vars

\* A set or remove returned Ok with stale_bytes exactly at the threshold, and
\* no compaction has run.
C24_Witness ==
    /\ wpc = "idle"
    /\ last.op \in {"set", "remove"}
    /\ last.res = "Ok"
    /\ last.at \in {"set_publish", "remove_publish"}
    /\ stale_bytes = COMPACTION_THRESHOLD
    /\ gen = 0
    /\ reopens = MaxReopens

\* C25: after a compaction in which nothing failed, the directory holds no log
\* file but the one of the new generation: no kvs_<g>.cbor of another
\* generation and no scratch file.
C25_CompactionLeavesOneLog ==
    (/\ wpc = "idle"
     /\ last.at = "compact_purge"
     /\ last.res = "Ok"
     /\ faults = MaxFaults
     /\ reopens = MaxReopens) =>
        /\ LogGens(dir) = {gen}
        /\ compacted_log_path \notin DOMAIN dir

\* C26: a reader handle opens the log of the generation it observed when it has
\* no cached file or its cached generation differs from the observed one, and
\* then caches the observed generation; a cached file is always the log of
\* the cached generation, and a get that decodes does so through a file that
\* was opened on the log of the generation it observed.
C26_ReaderHandleMatchesGeneration ==
    /\ [](\A r \in Readers :
            rd[r].file.kind # "none" => rd[r].file.path = log_path(rd[r].gen))
    /\ [][\A r \in Readers :
            (rd[r].pc = "looked" /\ rd'[r].pc = "done") =>
                LET differs == \/ rd[r].file.kind = "none"
                               \/ rd[r].gen # rd[r].current_gen
                IN  /\ (differs /\ rd'[r].result.tag # "IoErr") =>
                          /\ rd'[r].file = OpenFile(log_path(rd[r].current_gen))
                          /\ rd'[r].gen = rd[r].current_gen
                    /\ (~differs \/ rd'[r].result.tag = "IoErr") =>
                          /\ rd'[r].file = rd[r].file
                          /\ rd'[r].gen = rd[r].gen
                    /\ rd'[r].result.tag \in {"Some", "None", "Panic"} =>
                          /\ rd'[r].file.path = log_path(rd[r].current_gen)
                          /\ rd'[r].gen = rd[r].current_gen]_vars

\* A handle that had the log of generation g cached has observed a later
\* generation, opened its log and decoded the value through it.
C26_Witness ==
    \E r \in Readers :
        /\ rd[r].pc = "done"
        /\ rd[r].result.tag = "Some"
        /\ rd[r].had # NoGen
        /\ rd[r].had < rd[r].current_gen
        /\ rd[r].gen = rd[r].current_gen
        /\ rd[r].file.path = log_path(rd[r].current_gen)

\* C27: set(k, v) and remove(k) change what get returns only for k: from the
\* moment the call begins, through every step of it (its compaction included)
\* and after it has returned, get of every other key returns what it returned
\* when the call began.
C27_OtherKeysKeepTheirResult ==
    wop.op \in {"set", "remove"} =>
        \A k \in Keys \ {wop.key} : Mapping[k] = wop.before[k]

\* A set or remove of one key has compacted the log and returned Ok while the
\* other key holds a value.
C27_Witness ==
    /\ wpc = "idle"
    /\ last.op \in {"set", "remove"}
    /\ last.res = "Ok"
    /\ last.at = "compact_purge"
    /\ gen = wop.gen + 1
    /\ \E k \in Keys \ {last.key} :
        /\ wop.before[k].tag = "Some"
        /\ Mapping[k] = wop.before[k]

\* C28: a set or remove that returned an error has not applied its mutation:
\* get of every key returns what it returned when the call began.
C28_FailedCallAppliesNothing ==
    (/\ wpc = "idle"
     /\ last.op \in {"set", "remove"}
     /\ last.res \in {"Err", "KeyNotFound"}) =>
        Mapping = wop.before

\* C29: a compaction that failed after it had created the scratch file does
\* not block later ones: a compaction that runs with no I/O fault left to
\* happen, in the same process or after the directory was opened again,
\* succeeds and advances the generation by one.
C29_CompactionSucceedsWithoutFaults ==
    [][(wpc \in CompactionPcs /\ faults = 0 /\ reopens' = reopens) =>
          /\ wpc' \in CompactionPcs \cup {"idle"}
          /\ wpc' = "idle" => (last'.res = "Ok" /\ gen' = wop.gen + 1)]_vars

\* C30: get is read-only on what is shared: neither its lookup nor its read,
\* whatever it returns, changes the published index, the generation,
\* stale_bytes, the writer's handles or any log file; of the handle it is
\* called on it changes only the cached file and the cached generation (and
\* the state of the call itself), and it changes no other handle.
C30_GetIsReadOnly ==
    [][\A r \in Readers :
        (rd'[r].pc # rd[r].pc /\ rd'[r].pc \in {"looked", "done"}) =>
            /\ UNCHANGED <<dir, index, gen, stale_bytes, writer, wbuf, reader,
                           new_offsets>>
            /\ \A q \in Readers \ {r} : rd'[q] = rd[q]
            /\ rd'[r].pc = "looked" =>
                 (rd'[r].file = rd[r].file /\ rd'[r].gen = rd[r].gen)]_vars

\* A get on an engine nothing was ever written to returned None, having
\* opened and cached the empty log of generation 0.
C30_Witness ==
    \E r \in Readers :
        /\ rd[r].pc = "done"
        /\ rd[r].result.tag = "None"
        /\ rd[r].had = NoGen
        /\ rd[r].file = OpenFile(log_path(0))
        /\ calls = MaxCalls
        /\ wpc = "idle"
        /\ dir[log_path(0)] = <<>>

\* C21: ThreadedKvsClient::set and get return only after every batch job they
\* spawned has finished; they return Err exactly when at least one batch
\* failed; and while the call runs, an error a batch has stored is never
\* replaced by Ok.
C21_ThreadedCallCollectsErrors ==
    /\ [](tcall.pc = "returned" =>
            /\ Len(jobs) = Len(distribution)
            /\ \A b \in DOMAIN jobs : jobs[b].pc = "done"
            /\ tcall.result = "Err" <=>
                 (\E b \in DOMAIN jobs : jobs[b].outcome # "Ok"))
    /\ [][(result.tag = "Err" /\ tcall'.pc # "returned") =>
            result'.tag = "Err"]_vars

\* A get of several batches returned Err: one batch failed in its handler,
\* another succeeded, and all of them have finished.
C21_Witness ==
    /\ tcall.pc = "returned"
    /\ tcall.op = "get"
    /\ tcall.result = "Err"
    /\ threads = PoolThreads
    /\ Len(jobs) = PoolThreads
    /\ \E b \in DOMAIN jobs : jobs[b].outcome = "Handler"
    /\ \E b \in DOMAIN jobs : jobs[b].outcome = "Ok"

\* The sum of the first n batch sizes.
RECURSIVE SumOf(_, _)
SumOf(seq, n) == IF n = 0 THEN 0 ELSE SumOf(seq, n - 1) + seq[n]

\* C36: for one thread or more and any number of requests, divide_work returns
\* at most `threads` batch sizes, each above 0, that sum to the number of
\* requests and differ from one another by at most 1.
C36_DivideWork ==
    tcall.pc # "new" =>
        /\ Len(distribution) <= threads
        /\ \A i \in DOMAIN distribution : distribution[i] > 0
        /\ SumOf(distribution, Len(distribution)) = tcall.num_requests
        /\ \A i, j \in DOMAIN distribution :
              distribution[i] - distribution[j] <= 1

\* A call with more requests than threads, not a multiple of them: the batches
\* are not all of one size.
C36_Witness ==
    /\ tcall.pc # "new"
    /\ threads > 1
    /\ tcall.num_requests > threads
    /\ tcall.num_requests % threads # 0
    /\ Len(distribution) = threads
    /\ distribution[1] = distribution[threads] + 1

\* C31: once the sender of the pool has been dropped, every worker thread
\* eventually leaves its loop and ends.
C31_WorkersStopAfterDrop ==
    (sender = "dropped") ~> (\A w \in Workers : workers[w].pc = "exited")

Running ==
    {workers[w].job.id : w \in {v \in Workers : workers[v].pc = "running"}}

\* C33: every job passed to spawn is received by exactly one worker and run
\* exactly once, jobs leave the queue in the order of their spawn, and at most
\* `threads` jobs run at the same time.
C33_EveryJobRunsOnce ==
    /\ [](/\ \A i \in DOMAIN received : received[i] = i
          /\ Len(received) + Len(queue) = sent
          /\ \A i \in DOMAIN queue : queue[i].id = Len(received) + i
          /\ \A i, j \in DOMAIN finished :
                finished[i].id = finished[j].id => i = j
          /\ {finished[i].id : i \in DOMAIN finished} \cup Running
                = {received[i] : i \in DOMAIN received}
          /\ Len(finished) + Cardinality(Running) = Len(received)
          /\ Cardinality(Running)
                = Cardinality({w \in Workers : workers[w].pc = "running"})
          /\ Cardinality(Running) <= Cardinality(Workers))
    /\ <>[](Len(finished) = sent)

\* Three jobs were spawned and run, two of them at the same time: the one
\* received second ended first.
C33_Witness ==
    /\ sent = MaxJobs
    /\ Len(finished) = MaxJobs
    /\ received = <<1, 2, 3>>
    /\ finished[1].id = 2

\* Every request job of the connection has ended, by returning or by a panic.
ConnQuiet ==
    /\ conn.pc # "new"
    /\ \A j \in DOMAIN reqs : reqs[j].pc \in {"done", "panicked"}

\* C34: on a connection whose length byte len >= 1 is followed by len
\* requests, once the jobs have ended every request was handled once and
\* exactly len responses were written, one for each request; on a length
\* byte of 0 exactly one Error message was written and no request handled.
C34_BatchAnsweredOnce ==
    (wire.len = wire.requests /\ ConnQuiet) =>
        IF conn.len = 0
        THEN /\ responses = <<[req |-> 0, kind |-> "Error"]>>
             /\ handled = 0
        ELSE /\ handled = conn.len
             /\ Len(responses) = conn.len
             /\ \A j \in 1..conn.len :
                   Cardinality({i \in DOMAIN responses :
                                   responses[i].req = j}) = 1

\* C35: the length byte a KvsClient writes is the number of requests it then
\* sends, for every batch size, and the server spawns one job for each
\* request that was sent.
C35_LengthByteIsBatchSize ==
    /\ wire.sent => wire.len = wire.requests
    /\ conn.pc = "spawned" => Len(reqs) = wire.requests
    /\ conn.pc = "done" => wire.requests = 0

\* What open returns on the log, as KvStore::open computes it in one piece.
OpenResult == build_index(dir[reader])

\* open, replayed record by record, returns what build_index computes.
ReplayAgrees ==
    wpc \in {"idle", "failed"} =>
        /\ last.res = OpenResult.err
        /\ last.res = "Ok" =>
              index = OpenResult.index /\ stale_bytes = OpenResult.stale

====
